---- MODULE Spec2Model ----
(***************************************************************************)
(* A model of the dairy diet formulation workflow:                         *)
(*   util.py          Utility.construct_nutritional_req_table, the         *)
(*                    grouping utilities (_split_into_n_groups and its     *)
(*                    two_group_by / three_group_by callers)               *)
(*   run_diet_opt.py  group_and_optimize / optimize_diet                   *)
(*   main.py          group_and_opt / optimize                             *)
(*                                                                         *)
(* Numbers.  The program computes in binary floating point; the model      *)
(* computes in exact rationals [n, d] (d > 0), and the float NaN is the    *)
(* rational with d = 0.  Cow columns are fixed-point inputs: DMI in kg,    *)
(* NEL in tenths of Mcal/kg DM, DM_vary / NEL_vary in hundredths.          *)
(***************************************************************************)
EXTENDS Integers, Sequences, FiniteSets, TLC

VARIABLES
    \* ---- inputs of one run (never assigned by the program) ----
    prog,                \* which script runs: "run_diet_opt" | "main"
    group_num,           \* requested number of groups
    criteria,            \* grouping criterion string, as passed
    cow_df,              \* the herd table: a sequence of cow rows
    DM_vary, NEL_vary,   \* tolerances, in hundredths (2 = 0.02)
    methane_eqn, obj,    \* methane equation and objective strings
    crop_nutrient_table, \* [index: Seq(crop name), columns: set of names]
    feed_price_table,    \* [index: set of crop names, columns: set of names]
    crop_min_max_table,  \* [index: set of crop names]
    methane_weight,      \* weight of methane in the combined objective
    \* ---- the installed libraries (fixed during a run) ----
    np_empty_percentile, \* np.percentile of an empty array: "nan" | "IndexError"
    gurobi_nl,           \* whether gurobipy accepts Var / Var (nonlinear)
    \* ---- the LP solver (an external collaborator) ----
    var_X,               \* the values (Var.X) of a solution the solver holds
    \* ---- program state ----
    pc,                  \* position in group_and_optimize / group_and_opt
    out_dir_exists,      \* out_dir.mkdir has run
    groups,              \* the cohorts returned by the grouping step
    i,                   \* 1-based index of the cohort being processed
    DM_baseline, NEL_baseline, \* arguments of the current requirement call
    nutrient_req_table,  \* requirement table of the current cohort
    animal_count,        \* argument handed to optimize_diet / optimize
    objective,           \* coefficients of the expression given to setObjective
    status,              \* m.Status after m.optimize()
    SolCount,            \* m.SolCount: 1 when the solver holds a solution
    results_df, feed_df, \* the tables optimize_diet / optimize returned
    returned,            \* cohorts whose (results_df, feed_df) were returned
    files,               \* CSV files written so far
    err,                 \* the exception that ended the run, or NoErr
    req_built,           \* cohorts for which a requirement table was built
    built,               \* cohorts whose model was handed to optimize as built
    solver_calls         \* cohorts for which m.optimize() was invoked

config == <<prog, group_num, criteria, DM_vary, NEL_vary, methane_eqn, obj,
            methane_weight, np_empty_percentile, gurobi_nl, var_X>>

tables == <<crop_nutrient_table, feed_price_table, crop_min_max_table>>

inputs == <<config, cow_df, tables>>

state == <<pc, out_dir_exists, groups, i, DM_baseline, NEL_baseline,
           nutrient_req_table, animal_count, objective, status, SolCount,
           results_df, feed_df, returned, files, err, req_built, built,
           solver_calls>>

vars == <<inputs, state>>

-----------------------------------------------------------------------------
(* Bounds of the explored input families                                   *)

MaxCows == 3

MaxCowsReq == 2

MaxCowsRun == 3

MaxAnimalCount == 3

-----------------------------------------------------------------------------
(* Exact rationals standing for the program's floats                        *)

Abs(x) == IF x < 0 THEN -x ELSE x

RECURSIVE GCD(_, _)
GCD(a, b) == IF b = 0 THEN a ELSE GCD(b, a % b)

\* The rational n/d in lowest terms; d = 0 is NaN (0/0, the mean of nothing).
R(n, d) ==
    IF d = 0 THEN [n |-> 0, d |-> 0]
    ELSE LET s == IF d < 0 THEN -1 ELSE 1
             g == GCD(Abs(n), Abs(d))
         IN  [n |-> (s * n) \div g, d |-> (s * d) \div g]

NaN == R(0, 0)

IsNaN(a) == a.d = 0

RMul(a, b) == R(a.n * b.n, a.d * b.d)

RAdd(a, b) == R(a.n * b.d + b.n * a.d, a.d * b.d)

\* The numerator of a over the least common denominator of a and b
Scaled(a, b) == a.n * (b.d \div GCD(a.d, b.d))

\* Float comparisons: every comparison with NaN is false.
RLe(a, b) == /\ ~IsNaN(a) /\ ~IsNaN(b) /\ Scaled(a, b) <= Scaled(b, a)

RLt(a, b) == /\ ~IsNaN(a) /\ ~IsNaN(b) /\ Scaled(a, b) < Scaled(b, a)

-----------------------------------------------------------------------------
(* Exceptions                                                              *)

NoErr == [type |-> "none", site |-> "none"]

Raise(type, site) == [type |-> type, site |-> site]

-----------------------------------------------------------------------------
(* util.py: nutrient requirement construction                              *)

NEL_req_percentile == 83

\* Nutrient bounds expressed as fractions of DM
CP_min == R(15, 100)

CP_max == R(20, 100)

STARCH_min == R(22, 100)

STARCH_max == R(30, 100)

FAT_min == R(0, 100)

FAT_max == R(7, 100)

NDF_min == R(25, 100)

NDF_max == R(33, 100)

One == R(1, 1)

RNeg(a) == R(-a.n, a.d)

\* a / b for b that is neither zero nor NaN
RDiv(a, b) == R(a.n * b.d, a.d * b.n)

Zero == R(0, 1)

Hundred == R(100, 1)

Thousand == R(1000, 1)

\* A table whose NEL row stays per kg of DM (not multiplied by the intake)
construct_req_table_nel_per_kg(DM_b, NEL_b, DM_v, NEL_v) ==
    [DM     |-> [min |-> RMul(DM_b, RAdd(One, RNeg(DM_v))),
                 max |-> RMul(DM_b, RAdd(One, DM_v))],
     NEL    |-> [min |-> RMul(NEL_b, RAdd(One, RNeg(NEL_v))),
                 max |-> RMul(NEL_b, RAdd(One, NEL_v))],
     CP     |-> [min |-> RMul(DM_b, CP_min),     max |-> RMul(DM_b, CP_max)],
     NDF    |-> [min |-> RMul(DM_b, NDF_min),    max |-> RMul(DM_b, NDF_max)],
     STARCH |-> [min |-> RMul(DM_b, STARCH_min), max |-> RMul(DM_b, STARCH_max)],
     FAT    |-> [min |-> RMul(DM_b, FAT_min),    max |-> RMul(DM_b, FAT_max)]]

construct_nutritional_req_table(DM_b, NEL_b, DM_v, NEL_v) ==
    [DM     |-> [min |-> RMul(DM_b, RAdd(One, RNeg(DM_v))),
                 max |-> RMul(DM_b, RAdd(One, DM_v))],
     NEL    |-> [min |-> RMul(RMul(DM_b, NEL_b), RAdd(One, RNeg(NEL_v))),
                 max |-> RMul(RMul(DM_b, NEL_b), RAdd(One, NEL_v))],
     CP     |-> [min |-> RMul(DM_b, CP_min),     max |-> RMul(DM_b, CP_max)],
     NDF    |-> [min |-> RMul(DM_b, NDF_min),    max |-> RMul(DM_b, NDF_max)],
     STARCH |-> [min |-> RMul(DM_b, STARCH_min), max |-> RMul(DM_b, STARCH_max)],
     FAT    |-> [min |-> RMul(DM_b, FAT_min),    max |-> RMul(DM_b, FAT_max)]]

\* The table before any requirement call
NoTable == [DM     |-> [min |-> NaN, max |-> NaN],
            NEL    |-> [min |-> NaN, max |-> NaN],
            CP     |-> [min |-> NaN, max |-> NaN],
            NDF    |-> [min |-> NaN, max |-> NaN],
            STARCH |-> [min |-> NaN, max |-> NaN],
            FAT    |-> [min |-> NaN, max |-> NaN]]

\* float(DM_vary): the tolerance, given in hundredths
vary_float(v) == R(v, 100)

-----------------------------------------------------------------------------
(* pandas / numpy column statistics used by the callers                    *)

RECURSIVE SumCol(_, _)
SumCol(df, col) ==
    IF Len(df) = 0 THEN 0 ELSE df[1][col] + SumCol(Tail(df), col)

\* gdf[col].mean(): NaN for an empty frame
mean(df, col) == R(SumCol(df, col), Len(df))

RECURSIVE InsertInt(_, _)
InsertInt(x, s) ==
    IF Len(s) = 0 THEN <<x>>
    ELSE IF x <= s[1] THEN <<x>> \o s
    ELSE <<s[1]>> \o InsertInt(x, Tail(s))

RECURSIVE SortCol(_, _)
SortCol(df, col) ==
    IF Len(df) = 0 THEN <<>> ELSE InsertInt(df[1][col], SortCol(Tail(df), col))

\* np.percentile(gdf[col], q), linear interpolation, of a non-empty column:
\* virtual index (n - 1) * q / 100 between the two neighbouring order
\* statistics.
percentile(df, col, q) ==
    LET s  == SortCol(df, col)
        n  == Len(s)
        h  == (n - 1) * q
        lo == h \div 100
        g  == h % 100
        hi == IF lo + 1 <= n - 1 THEN lo + 1 ELSE lo
    IN  R(100 * s[lo + 1] + (s[hi + 1] - s[lo + 1]) * g, 100)

\* The NEL column is held in tenths of Mcal/kg DM
NEL_unit == R(1, 10)

-----------------------------------------------------------------------------
(* util.py: grouping utilities                                              *)

Perms(n) ==
    {p \in [1..n -> 1..n] : \A a, b \in 1..n : a # b => p[a] # p[b]}

\* A sort_values that returns the frame as it is
sort_values_unsorted(df, col) == {df}

\* cow_df.sort_values(col): pandas sorts with kind = "quicksort", which is
\* not stable, so every ascending arrangement of the rows is a possible result.
sort_values(df, col) ==
    {[k \in 1..Len(df) |-> df[p[k]]] :
        p \in {q \in Perms(Len(df)) :
                 \A k \in 1..(Len(df) - 1) : df[q[k]][col] <= df[q[k + 1]][col]}}

\* A sort that rearranges the caller's frame (inplace = True)
sort_values_inplace(df, col) == CHOOSE s \in sort_values(df, col) : TRUE

\* The frame the caller holds after cow_df.sort_values(col): the sorted rows
\* go to a new frame (inplace = False), the caller's is as it was
sort_values_caller_frame(df, col) == df

\* A slice that leaves out the row at its lower boundary
iloc_open(df, a, b) == SubSeq(df, a + 2, b)

\* sorted_df.iloc[a : b], a 0-based half-open slice
iloc(df, a, b) == SubSeq(df, a + 1, b)

\* A split whose boundaries are multiples of size // n
split_equal_chunks(sorted_df, n) ==
    LET size == Len(sorted_df)
    IN  [k \in 1..n |->
            iloc(sorted_df, (k - 1) * (size \div n), k * (size \div n))]

_split_into_n_groups(sorted_df, n) ==
    LET size == Len(sorted_df)
    IN  [k \in 1..n |->
            iloc(sorted_df, ((k - 1) * size) \div n, (k * size) \div n)]

\* two_group_by_dim, two_group_by_nel, two_group_by_my (n = 2) and
\* three_group_by_dim, three_group_by_nel, three_group_by_my (n = 3)
n_group_by(df, col, n) ==
    {_split_into_n_groups(s, n) : s \in sort_values(df, col)}

\* The column each criterion sorts by
criteria_col(c) ==
    CASE c = "dim"  -> "DIM"
      [] c = "nel"  -> "NEL"
      [] c = "milk" -> "MILK"

\* str.strip().lower() on the strings the model passes; a lower-case string
\* without surrounding blanks is returned as it is
strip_lower(s) ==
    CASE s = " DIM "  -> "dim"
      [] s = "Milk"   -> "milk"
      [] s = " Cost " -> "cost"
      [] OTHER        -> s

\* str.strip().upper() on the methane equation names the model passes
strip_upper(s) ==
    CASE s = "Ellis"  -> "ELLIS"
      [] s = "ellis"  -> "ELLIS"
      [] s = "nasem"  -> "NASEM"
      [] s = " NASEM" -> "NASEM"
      [] OTHER        -> s

-----------------------------------------------------------------------------
(* The grouping step of the two drivers                                     *)

Grouped(g) == [err |-> NoErr, groups |-> g]

GroupFailed(e) == [err |-> e, groups |-> <<>>]

\* A grouping step that never looks at the criterion: anything that is not
\* "dim" or "nel" falls through to the milk-yield branch
grouping_without_criteria_check(gn, crit, df) ==
    LET c == strip_lower(crit)
        col == IF c \in {"dim", "nel"} THEN criteria_col(c) ELSE "MILK"
    IN  IF gn \notin {1, 2, 3}
        THEN {GroupFailed(Raise("ValueError", "group_num"))}
        ELSE IF gn = 1
        THEN {Grouped(<<df>>)}
        ELSE {Grouped(g) : g \in n_group_by(df, col, gn)}

\* run_diet_opt.py, group_and_optimize: validation, then grouping.  The
\* result is the set of outcomes the (unstable) sort allows.
group_and_optimize_grouping(gn, crit, df) ==
    LET c == strip_lower(crit)
    IN  IF gn \notin {1, 2, 3}
        THEN {GroupFailed(Raise("ValueError", "group_num"))}
        ELSE IF gn > 1 /\ c \notin {"dim", "nel", "milk"}
        THEN {GroupFailed(Raise("ValueError", "criteria"))}
        ELSE IF gn = 1
        THEN {Grouped(<<df>>)}
        ELSE {Grouped(g) : g \in n_group_by(df, criteria_col(c), gn)}

\* main.py, group_and_opt: the criterion is compared as passed, and only
\* looked at for 2 or 3 groups.
group_and_opt_grouping(gn, crit, df) ==
    IF gn = 1
    THEN {Grouped(<<df>>)}
    ELSE IF gn \in {2, 3}
    THEN IF crit \in {"dim", "nel", "milk"}
         THEN {Grouped(g) : g \in n_group_by(df, criteria_col(crit), gn)}
         ELSE {GroupFailed(Raise("ValueError", "criteria"))}
    ELSE {GroupFailed(Raise("ValueError", "group_num"))}

-----------------------------------------------------------------------------
(* Model building: the checks that can end optimize_diet / optimize before  *)
(* m.optimize()                                                            *)

OTHER_NUTRIENTS == <<"NEL", "CP", "NDF", "STARCH", "FAT">>

forage_ingredients == <<"Corn silage", "Legume silage, mid maturity">>

required_crop_cols == {"DM", "NEL", "CP", "NDF", "TFA", "DNDF"}

SeqToSet(s) == {s[k] : k \in DOMAIN s}

\* The first exception of a sequence of checks, NoErr when all pass
RECURSIVE FirstErr(_)
FirstErr(es) ==
    IF Len(es) = 0 THEN NoErr
    ELSE IF es[1] # NoErr THEN es[1] ELSE FirstErr(Tail(es))

check_animal_count(ac) ==
    IF ac <= 0 THEN Raise("ValueError", "animal_count") ELSE NoErr

check_methane_eqn(eqn) ==
    IF strip_upper(eqn) \notin {"ELLIS", "NASEM"}
    THEN Raise("ValueError", "methane_eqn") ELSE NoErr

\* An objective check that lets every string through
check_obj_any(ob) == NoErr

check_obj(ob) ==
    IF strip_lower(ob) \notin {"methane", "cost", "both"}
    THEN Raise("ValueError", "obj") ELSE NoErr

check_required_crop_cols(columns) ==
    IF required_crop_cols \ columns # {}
    THEN Raise("ValueError", "missing_cols") ELSE NoErr

check_nutrient_columns(columns) ==
    IF SeqToSet(OTHER_NUTRIENTS) \ columns # {}
    THEN Raise("ValueError", "nutrient_column") ELSE NoErr

\* A forage check that looks for the first forage ingredient only
check_forage_first_only(crops) ==
    IF forage_ingredients[1] \notin SeqToSet(crops)
    THEN Raise("ValueError", "forage") ELSE NoErr

check_forage(crops) ==
    IF \E k \in DOMAIN forage_ingredients :
          forage_ingredients[k] \notin SeqToSet(crops)
    THEN Raise("ValueError", "forage") ELSE NoErr

\* An inclusion-limit lookup that skips ingredients without a row
check_min_max_skipping(crops, min_max) == NoErr

check_min_max(crops, min_max) ==
    IF \E k \in DOMAIN crops : crops[k] \notin min_max.index
    THEN Raise("ValueError", "min_max") ELSE NoErr

check_price(crops, price) ==
    IF "price ($/kg)" \notin price.columns
    THEN Raise("ValueError", "price_column")
    ELSE IF \E k \in DOMAIN crops : crops[k] \notin price.index
    THEN Raise("ValueError", "price") ELSE NoErr

\* The NASEM constraint divides one decision variable by another (tfa / dmi):
\* a gurobipy without nonlinear expressions refuses the division.
check_methane_constraint(eqn, nl) ==
    IF strip_upper(eqn) = "NASEM" /\ ~nl
    THEN Raise("GurobiError", "methane_calc") ELSE NoErr

\* run_diet_opt.py, optimize_diet up to m.setObjective: the exception that
\* ends it, or NoErr when the model is built.  The check of the requirement
\* table's rows (DM, NEL, CP, NDF) always passes on the tables
\* construct_nutritional_req_table returns; a Gurobi installation that cannot
\* create a Model at all is outside the model.
optimize_diet_build(ac, eqn, ob, crop, price, min_max, nl) ==
    FirstErr(<<check_animal_count(ac),
               check_methane_eqn(eqn),
               check_obj(ob),
               check_required_crop_cols(crop.columns),
               check_nutrient_columns(crop.columns),
               check_forage(crop.index),
               check_min_max(crop.index, min_max),
               check_price(crop.index, price),
               check_methane_constraint(eqn, nl)>>)

\* main.py, optimize up to m.setObjective.  Nothing is validated: a missing
\* column or ingredient surfaces as the KeyError of the lookup that needs it,
\* an empty cohort as the division by animal_count, and the price table is
\* loaded by a call that omits get_feed_price_table's required path.
optimize_build(ac, crop, min_max) ==
    FirstErr(<<IF Len(crop.index) > 0 /\ "DM" \notin crop.columns
               THEN Raise("KeyError", "DM") ELSE NoErr,
               IF ac = 0 THEN Raise("ZeroDivisionError", "animal_count")
               ELSE NoErr,
               IF Len(crop.index) > 0
                  /\ SeqToSet(OTHER_NUTRIENTS) \ crop.columns # {}
               THEN Raise("KeyError", "nutrient_column") ELSE NoErr,
               IF \E k \in DOMAIN forage_ingredients :
                     forage_ingredients[k] \notin SeqToSet(crop.index)
               THEN Raise("KeyError", "forage") ELSE NoErr,
               IF \E k \in DOMAIN crop.index :
                     crop.index[k] \notin min_max.index
               THEN Raise("KeyError", "min_max") ELSE NoErr,
               IF {"TFA", "DNDF"} \ crop.columns # {}
               THEN Raise("KeyError", "nutrient_column") ELSE NoErr,
               Raise("TypeError", "get_feed_price_table")>>)

-----------------------------------------------------------------------------
(* The objective: optimize_diet lines 271-280, optimize lines 169-193        *)

\* main.py's weight of methane in the combined objective
w == 1

\* The objective before setObjective
NoObjective == [cost |-> NaN, methane |-> NaN]

Built(o) == [err |-> NoErr, objective |-> o]

BuildFailed(e) == [err |-> e, objective |-> NoObjective]

\* An objective that adds methane to cost with weight 1, whatever the weight
optimize_diet_objective_unweighted(ob, mw) ==
    LET o == strip_lower(ob)
    IN  IF o = "methane" THEN Built([cost |-> Zero, methane |-> One])
        ELSE IF o = "cost" THEN Built([cost |-> One, methane |-> Zero])
        ELSE Built([cost |-> One, methane |-> One])

\* run_diet_opt.py: obj was normalised and checked on entry, so the last
\* branch is "both"; the weight is float(methane_weight).
optimize_diet_objective(ob, mw) ==
    LET o == strip_lower(ob)
    IN  IF o = "methane" THEN Built([cost |-> Zero, methane |-> One])
        ELSE IF o = "cost" THEN Built([cost |-> One, methane |-> Zero])
        ELSE Built([cost |-> One, methane |-> mw])

\* main.py: the methane equation and the objective are compared as passed,
\* after every constraint but the methane one has been added; the weight is
\* the module's w.
optimize_objective(eqn, ob, nl) ==
    IF eqn \notin {"Ellis", "NASEM"}
    THEN BuildFailed(Raise("ValueError", "methane_eqn"))
    ELSE IF eqn = "NASEM" /\ ~nl
    THEN BuildFailed(Raise("GurobiError", "methane_calc"))
    ELSE IF ob = "methane" THEN Built([cost |-> Zero, methane |-> One])
    ELSE IF ob = "cost" THEN Built([cost |-> One, methane |-> Zero])
    ELSE IF ob = "both" THEN Built([cost |-> One, methane |-> R(w, 1)])
    ELSE BuildFailed(Raise("ValueError", "obj"))

-----------------------------------------------------------------------------
(* Result extraction: optimize_diet lines 290-314, optimize lines 198-214    *)

RECURSIVE Pow10(_)
Pow10(k) == IF k = 0 THEN 1 ELSE 10 * Pow10(k - 1)

\* The first k decimal digits q of r / d (0 <= r < d) and what is left over
RECURSIVE LongDivision(_, _, _)
LongDivision(r, d, k) ==
    IF k = 0 THEN [q |-> 0, r |-> r]
    ELSE LET t == LongDivision(r, d, k - 1)
         IN  [q |-> t.q * 10 + (t.r * 10) \div d, r |-> (t.r * 10) % d]

\* DataFrame.round(decimals) on one value: scaled by 10^decimals, rounded to
\* the nearest integer (a half goes to the even neighbour), scaled back.
\* NaN stays NaN.
round(a, decimals) ==
    IF IsNaN(a) THEN NaN
    ELSE LET t  == LongDivision(a.n % a.d, a.d, decimals)
             q  == (a.n \div a.d) * Pow10(decimals) + t.q
             up == (2 * t.r > a.d) \/ (2 * t.r = a.d /\ q % 2 = 1)
         IN  R(IF up THEN q + 1 ELSE q, Pow10(decimals))

\* The per-cow amount above which an ingredient is listed (0.01 kg)
feed_threshold == R(1, 100)

\* sum(feed_on_farm[c].X for c in crops)
RECURSIVE SumX(_, _)
SumX(X, crops) ==
    IF Len(crops) = 0 THEN Zero ELSE RAdd(X[crops[1]], SumX(X, Tail(crops)))

FeedRow(c, amount) == [Ingredient |-> c, Amount |-> amount]

\* run_diet_opt.py: the ingredients whose amount per cow exceeds the threshold
RECURSIVE feed_rows(_, _, _)
feed_rows(X, crops, ac) ==
    IF Len(crops) = 0 THEN <<>>
    ELSE LET c == crops[1]
             amount == RDiv(X[c], R(ac, 1))
         IN  (IF RLt(feed_threshold, amount)
              THEN <<FeedRow(c, amount)>> ELSE <<>>)
             \o feed_rows(X, Tail(crops), ac)

\* main.py: the ingredients whose herd total exceeds the threshold
RECURSIVE feed_data(_, _, _)
feed_data(X, crops, ac) ==
    IF Len(crops) = 0 THEN <<>>
    ELSE LET c == crops[1]
         IN  (IF RLt(feed_threshold, X[c])
              THEN <<FeedRow(c, RDiv(X[c], R(ac, 1)))>> ELSE <<>>)
             \o feed_data(X, Tail(crops), ac)

\* feed_df.sort_values("Amount as fed (kg/cow/d)", ascending=False): the sort
\* is not stable, so rows with equal amounts come in any order.
sort_values_descending(df) ==
    {[k \in 1..Len(df) |-> df[p[k]]] :
        p \in {q \in Perms(Len(df)) :
                 \A k \in 1..(Len(df) - 1) :
                     RLe(df[q[k + 1]].Amount, df[q[k]].Amount)}}

ResultRow(name, value) == [Variable |-> name, Value |-> value]

round_results(df, decimals) ==
    [k \in DOMAIN df |-> ResultRow(df[k].Variable, round(df[k].Value, decimals))]

round_feed(df, decimals) ==
    [k \in DOMAIN df |-> FeedRow(df[k].Ingredient, round(df[k].Amount, decimals))]

NoResults == <<>>

Extracted(r, f) == [err |-> NoErr, results_df |-> r, feed_df |-> f]

ExtractFailed(e) == [err |-> e, results_df |-> NoResults, feed_df |-> NoResults]

\* A summary that reports methane in kg, as the solver holds it
results_rows_methane_kg(v, total_as_fed) ==
    LET ratio(x) == IF RLt(Zero, v.dmi) THEN RDiv(x, v.dmi) ELSE NaN
        pct(x)   == IF RLt(Zero, v.dmi)
                    THEN RMul(RDiv(x, v.dmi), Hundred) ELSE NaN
    IN  <<ResultRow("$/cow/d", v.cost),
          ResultRow("methane (g/cow/d)", v.methane),
          ResultRow("dmi (kg DM/cow/d)", v.dmi),
          ResultRow("dm (%)", IF RLt(Zero, total_as_fed)
                              THEN RMul(RDiv(v.dmi, total_as_fed), Hundred)
                              ELSE NaN),
          ResultRow("NEL (Mcal/kg DM)", ratio(v.nel)),
          ResultRow("CP (% of DM)", pct(v.nutrient_vars.CP)),
          ResultRow("NDF (% of DM)", pct(v.nutrient_vars.NDF)),
          ResultRow("STARCH (% of DM)", pct(v.nutrient_vars.STARCH)),
          ResultRow("FAT (% of DM)", pct(v.nutrient_vars.FAT)),
          ResultRow("TFA (% of DM)", pct(v.tfa)),
          ResultRow("DNDF (% of DM)", pct(v.dndf))>>

\* run_diet_opt.py, results_rows: every ratio is guarded by its divisor
results_rows(v, total_as_fed) ==
    LET ratio(x) == IF RLt(Zero, v.dmi) THEN RDiv(x, v.dmi) ELSE NaN
        pct(x)   == IF RLt(Zero, v.dmi)
                    THEN RMul(RDiv(x, v.dmi), Hundred) ELSE NaN
    IN  <<ResultRow("$/cow/d", v.cost),
          ResultRow("methane (g/cow/d)", RMul(v.methane, Thousand)),
          ResultRow("dmi (kg DM/cow/d)", v.dmi),
          ResultRow("dm (%)", IF RLt(Zero, total_as_fed)
                              THEN RMul(RDiv(v.dmi, total_as_fed), Hundred)
                              ELSE NaN),
          ResultRow("NEL (Mcal/kg DM)", ratio(v.nel)),
          ResultRow("CP (% of DM)", pct(v.nutrient_vars.CP)),
          ResultRow("NDF (% of DM)", pct(v.nutrient_vars.NDF)),
          ResultRow("STARCH (% of DM)", pct(v.nutrient_vars.STARCH)),
          ResultRow("FAT (% of DM)", pct(v.nutrient_vars.FAT)),
          ResultRow("TFA (% of DM)", pct(v.tfa)),
          ResultRow("DNDF (% of DM)", pct(v.dndf))>>

\* main.py, results_data: the same rows, no divisor is looked at
results_data(v, total_as_fed) ==
    <<ResultRow("$/cow/d", v.cost),
      ResultRow("methane (g/cow/d)", RMul(v.methane, Thousand)),
      ResultRow("dmi (kg/cow/d)", v.dmi),
      ResultRow("dm (%)", RMul(RDiv(v.dmi, total_as_fed), Hundred)),
      ResultRow("NEL (Mcal/kg)", RDiv(v.nel, v.dmi)),
      ResultRow("CP (% in DM)", RMul(RDiv(v.nutrient_vars.CP, v.dmi), Hundred)),
      ResultRow("NDF (% in DM)", RMul(RDiv(v.nutrient_vars.NDF, v.dmi), Hundred)),
      ResultRow("STARCH (% in DM)",
                RMul(RDiv(v.nutrient_vars.STARCH, v.dmi), Hundred)),
      ResultRow("FAT (% in DM)", RMul(RDiv(v.nutrient_vars.FAT, v.dmi), Hundred)),
      ResultRow("TFA (% in DM)", RMul(RDiv(v.tfa, v.dmi), Hundred)),
      ResultRow("DNDF (% in DM)", RMul(RDiv(v.dndf, v.dmi), Hundred))>>

\* run_diet_opt.py, optimize_diet after the status check.  A DataFrame built
\* from no rows has no columns, so sorting it by the amount column raises
\* KeyError.  The outcomes differ in the order of rows with equal amounts.
optimize_diet_extract(v, crops, ac) ==
    LET total_as_fed == RDiv(SumX(v.feed_on_farm, crops), R(ac, 1))
        rows == feed_rows(v.feed_on_farm, crops, ac)
    IN  IF Len(rows) = 0
        THEN {ExtractFailed(Raise("KeyError", "sort_values"))}
        ELSE {Extracted(round_results(results_rows(v, total_as_fed), 4),
                        round_feed(f, 4)) :
                 f \in sort_values_descending(rows)}

\* main.py, optimize after m.optimize().  The values are Python floats: a
\* division by 0.0 raises ZeroDivisionError.
optimize_extract(v, crops, ac) ==
    LET total_as_fed == RDiv(SumX(v.feed_on_farm, crops), R(ac, 1))
    IN  IF total_as_fed = Zero \/ v.dmi = Zero
        THEN {ExtractFailed(Raise("ZeroDivisionError", "results_data"))}
        ELSE {Extracted(round_results(results_data(v, total_as_fed), 2),
                        round_feed(feed_data(v.feed_on_farm, crops, ac), 2))}

-----------------------------------------------------------------------------
(* Input families                                                           *)

Progs == {"run_diet_opt", "main"}

AllColumns == {"DM", "NEL", "CP", "NDF", "STARCH", "FAT", "TFA", "DNDF"}

FullLibrary == <<"Corn silage", "Legume silage, mid maturity", "Corn grain">>

CropTable(index) == [index |-> index, columns |-> AllColumns]

PriceTable(index) == [index |-> index, columns |-> {"price ($/kg)"}]

MinMaxTable(index) == [index |-> index]

\* Herds of n cows, row k carrying the identifier k
Herds(n, dims, nels, milks, dmis) ==
    {[k \in 1..n |-> [ID   |-> k,       DIM |-> f[k].DIM, NEL |-> f[k].NEL,
                      MILK |-> f[k].MILK, DMI |-> f[k].DMI]] :
        f \in [1..n -> [DIM : dims, NEL : nels, MILK : milks, DMI : dmis]]}

\* Herds with equal and with distinct values in the DIM and NEL columns, and
\* the same milk yield for every cow
PartitionHerds ==
    UNION {Herds(n, {50, 200}, {15, 17}, {30}, {25}) : n \in 0..MaxCows}

\* Herds whose DMI / NEL columns give valid and invalid baselines
ReqHerds ==
    UNION {Herds(n, {100}, {0, 17}, {35}, {-5, 0, 25}) : n \in 1..MaxCowsReq}

\* The herd of n cows, cow k with DIM 250 - 50k
RunHerd(n) ==
    [k \in 1..n |-> [ID |-> k, DIM |-> 250 - 50 * k, NEL |-> 15 + (k % 2) * 2,
                     MILK |-> 30 + k, DMI |-> 25]]

\* One herd of each size
RunHerds == {RunHerd(n) : n \in 0..MaxCowsRun}

VaryValues == {-10, 0, 2, 100, 150}

GRB_Status == {"OPTIMAL", "SUBOPTIMAL", "INFEASIBLE", "UNBOUNDED", "INTERRUPTED"}

\* What m.optimize() can leave behind: a status, and whether a solution is
\* held (Var.X can be read).  An interrupted solve may or may not hold one.
SolverOutcomes ==
    {[status |-> "OPTIMAL",     SolCount |-> 1],
     [status |-> "SUBOPTIMAL",  SolCount |-> 1],
     [status |-> "INFEASIBLE",  SolCount |-> 0],
     [status |-> "UNBOUNDED",   SolCount |-> 0],
     [status |-> "INTERRUPTED", SolCount |-> 0],
     [status |-> "INTERRUPTED", SolCount |-> 1]}

\* Herd totals (kg as fed) the solver may assign to an ingredient: nothing,
\* amounts around the 0.01 kg threshold, and a real amount
XValues == {Zero, R(3, 200), R(1, 50), R(40, 1)}

DmiValues == {Zero, R(20, 1), R(62, 3)}

KpiValues == {[cost |-> R(7, 1),  methane |-> R(2, 5)],
              [cost |-> R(22, 3), methane |-> R(1, 3)]}

\* A value for every variable of the model
SolvedAssignment(x, d, k) ==
    [feed_on_farm  |-> x,
     dmi           |-> d,
     nel           |-> R(33, 1),
     me            |-> R(60, 1),
     cp            |-> R(17, 5),
     ndf           |-> R(6, 1),
     tfa           |-> R(4, 5),
     dndf          |-> R(5, 2),
     methane       |-> k.methane,
     cost          |-> k.cost,
     nutrient_vars |-> [NEL |-> R(33, 1), CP |-> R(17, 5), NDF |-> R(6, 1),
                        STARCH |-> R(5, 1), FAT |-> R(1, 1)]]

\* The solver's answers: a positive intake comes with a real amount of some
\* ingredient
SolvedAssignments ==
    {SolvedAssignment(t.x, t.d, k) :
        t \in {u \in [x : [SeqToSet(FullLibrary) -> XValues], d : DmiValues] :
                  u.d # Zero =>
                      \E c \in SeqToSet(FullLibrary) : u.x[c] = R(40, 1)},
        k \in KpiValues}

\* One ordinary solution
TypicalSolution ==
    SolvedAssignment([c \in SeqToSet(FullLibrary) |->
                         IF c = "Corn grain" THEN R(1, 50) ELSE R(40, 1)],
                     R(62, 3), [cost |-> R(22, 3), methane |-> R(1, 3)])

WeightValues == {Zero, R(1, 2), One, R(3, 1)}

\* The contents of a crop library: DM as a fraction of the as-fed weight, NEL
\* in Mcal per kg of DM, the others as fractions of DM
crop_nutrient_values ==
    [c \in SeqToSet(FullLibrary) |->
        IF c = "Corn silage"
        THEN [DM |-> R(1, 2), NEL |-> R(3, 2), CP |-> R(8, 100),
              NDF |-> R(45, 100), STARCH |-> R(20, 100), FAT |-> R(3, 100),
              TFA |-> R(2, 100), DNDF |-> R(20, 100)]
        ELSE IF c = "Legume silage, mid maturity"
        THEN [DM |-> R(1, 2), NEL |-> R(3, 2), CP |-> R(22, 100),
              NDF |-> R(40, 100), STARCH |-> R(2, 100), FAT |-> R(3, 100),
              TFA |-> R(2, 100), DNDF |-> R(20, 100)]
        ELSE [DM |-> One, NEL |-> R(19, 10), CP |-> R(22, 100),
              NDF |-> R(12, 100), STARCH |-> R(40, 100), FAT |-> R(3, 100),
              TFA |-> R(3, 100), DNDF |-> R(5, 100)]]

\* The inclusion limits, kg as fed per cow per day
crop_min_max_values ==
    [c \in SeqToSet(FullLibrary) |-> [min |-> Zero, max |-> R(50, 1)]]

\* Limits that cap ingredient c at 0
capped(c) == [crop_min_max_values EXCEPT ![c].max = Zero]

\* The prices, $ per kg as fed
feed_price_values ==
    [c \in SeqToSet(FullLibrary) |->
        IF c = "Corn grain" THEN R(1, 5) ELSE R(1, 20)]

\* Amounts per cow the solver may try for the two silages and the grain
SilageAmounts == {Zero, R(10, 1), R(15, 1), R(25, 1)}

GrainAmounts == {Zero, R(25, 2), R(51, 4)}

\* Assignments of herd totals to feed_on_farm, for a cohort of ac cows
Assignments(ac) ==
    {[c \in SeqToSet(FullLibrary) |->
         RMul(R(ac, 1),
              IF c = "Corn silage" THEN a.cs
              ELSE IF c = "Legume silage, mid maturity" THEN a.ls
              ELSE a.cg)] :
        a \in [cs : SilageAmounts, ls : SilageAmounts, cg : GrainAmounts]}

-----------------------------------------------------------------------------
(* The constraints of the model: optimize_diet lines 121-258                 *)

\* sum(X[c] * coef[c] for c in crops)
RECURSIVE WeightedSum(_, _, _)
WeightedSum(X, coef, crops) ==
    IF Len(crops) = 0 THEN Zero
    ELSE RAdd(RMul(X[crops[1]], coef[crops[1]]),
              WeightedSum(X, coef, Tail(crops)))

\* sum(X[c] * DM[c] * col[c] for c in crops) / animal_count
PerCowTotal(X, col, crops, ac) ==
    RDiv(WeightedSum(X, [c \in SeqToSet(crops) |->
                            RMul(crop_nutrient_values[c].DM,
                                 crop_nutrient_values[c][col])], crops),
         R(ac, 1))

\* The variables that the equality constraints tie to feed_on_farm: dmi_calc,
\* <n>_calc, forage_dm, nel_calc_from_nutrients, me_calc, tfa_calc,
\* dndf_calc, cost_calc.  me = 1.818 * nel - 0.2319 is summed in
\* ten-thousandths.
model_values(X, crops, ac) ==
    LET nv == [n \in SeqToSet(OTHER_NUTRIENTS) |->
                  PerCowTotal(X, n, crops, ac)]
    IN  [dmi  |-> RDiv(WeightedSum(X, [c \in SeqToSet(crops) |->
                                         crop_nutrient_values[c].DM], crops),
                       R(ac, 1)),
         nutrient_vars |-> nv,
         forage_dm |-> RDiv(RAdd(RMul(X[forage_ingredients[1]],
                                      crop_nutrient_values[
                                          forage_ingredients[1]].DM),
                                 RMul(X[forage_ingredients[2]],
                                      crop_nutrient_values[
                                          forage_ingredients[2]].DM)),
                            R(ac, 1)),
         nel  |-> nv.NEL,
         me   |-> RMul(R(1, 10000),
                       RAdd(RMul(R(18180, 1), nv.NEL), RNeg(R(2319, 1)))),
         cp   |-> nv.CP,
         ndf  |-> nv.NDF,
         tfa  |-> PerCowTotal(X, "TFA", crops, ac),
         dndf |-> PerCowTotal(X, "DNDF", crops, ac),
         cost |-> RDiv(WeightedSum(X, feed_price_values, crops), R(ac, 1))]

\* Requirement bounds that take the table's maximum for the intake's minimum
nutrient_constraints_from_max(v, t) ==
    /\ RLe(t.DM.max, v.dmi)
    /\ RLe(v.dmi, t.DM.max)
    /\ \A n \in SeqToSet(OTHER_NUTRIENTS) :
          /\ RLe(t[n].min, v.nutrient_vars[n])
          /\ RLe(v.nutrient_vars[n], t[n].max)

\* dmi_min, dmi_max and <n>_min, <n>_max for the other nutrients: the bounds
\* of the requirement table t
nutrient_constraints(v, t) ==
    /\ RLe(t.DM.min, v.dmi)
    /\ RLe(v.dmi, t.DM.max)
    /\ \A n \in SeqToSet(OTHER_NUTRIENTS) :
          /\ RLe(t[n].min, v.nutrient_vars[n])
          /\ RLe(v.nutrient_vars[n], t[n].max)

\* forage_min, forage_max: forage is 40% to 60% of the intake
forage_constraints(v) ==
    /\ RLe(RMul(R(4, 10), v.dmi), v.forage_dm)
    /\ RLe(v.forage_dm, RMul(R(6, 10), v.dmi))

\* min_<c>, max_<c>: the inclusion limits, per cow
ingredient_constraints(X, crops, ac, limits) ==
    \A c \in SeqToSet(crops) :
        /\ RLe(limits[c].min, RDiv(X[c], R(ac, 1)))
        /\ RLe(RDiv(X[c], R(ac, 1)), limits[c].max)

\* Land use without the upper coupling of the two silages
land_constraints_lower_only(X) ==
    RLe(X["Legume silage, mid maturity"], X["Corn silage"])

\* land_constraint1, land_constraint2
land_constraints(X) ==
    /\ RLe(X["Legume silage, mid maturity"], X["Corn silage"])
    /\ RLe(X["Corn silage"], RMul(R(2, 1), X["Legume silage, mid maturity"]))

\* lb=0 of every variable.  With the Ellis equation methane is a positive
\* constant plus positive multiples of me and ndf, so its own lower bound
\* excludes nothing that the bounds of me and ndf admit.
lower_bounds(X, crops, v) ==
    /\ \A c \in SeqToSet(crops) : RLe(Zero, X[c])
    /\ RLe(Zero, v.dmi)
    /\ \A n \in SeqToSet(OTHER_NUTRIENTS) : RLe(Zero, v.nutrient_vars[n])
    /\ RLe(Zero, v.nel)
    /\ RLe(Zero, v.me)
    /\ RLe(Zero, v.cp)
    /\ RLe(Zero, v.ndf)
    /\ RLe(Zero, v.tfa)
    /\ RLe(Zero, v.dndf)
    /\ RLe(Zero, v.cost)

\* The assignment X of feed_on_farm satisfies every constraint of the model
\* built for ac cows from the requirement table t and the inclusion limits
\* (Ellis equation)
Feasible(X, crops, ac, t, limits) ==
    /\ land_constraints(X)
    /\ ingredient_constraints(X, crops, ac, limits)
    /\ LET v == model_values(X, crops, ac)
       IN  /\ lower_bounds(X, crops, v)
           /\ nutrient_constraints(v, t)
           /\ forage_constraints(v)

-----------------------------------------------------------------------------
(* Initial states                                                          *)

InitState ==
    /\ pc = "start"
    /\ out_dir_exists = FALSE
    /\ groups = <<>>
    /\ i = 0
    /\ DM_baseline = NaN
    /\ NEL_baseline = NaN
    /\ nutrient_req_table = NoTable
    /\ animal_count = 0
    /\ objective = NoObjective
    /\ status = "LOADED"
    /\ SolCount = 0
    /\ results_df = NoResults
    /\ feed_df = NoResults
    /\ returned = {}
    /\ files = {}
    /\ err = NoErr
    /\ req_built = {}
    /\ built = {}
    /\ solver_calls = {}

\* The workflow under valid and invalid configurations
Init ==
    /\ prog \in Progs
    /\ group_num \in 0..4
    /\ criteria \in {"dim", " DIM ", "milk", "weight"}
    /\ cow_df \in RunHerds
    /\ DM_vary = 1
    /\ NEL_vary = 1
    /\ methane_eqn \in {"NASEM", "Ellis", "IPCC"}
    /\ obj \in {"cost", "profit"}
    /\ crop_nutrient_table \in
          {CropTable(FullLibrary),
           CropTable(<<"Legume silage, mid maturity", "Corn grain">>),
           CropTable(<<"Corn silage", "Corn grain">>)}
    /\ feed_price_table \in
          {PriceTable(SeqToSet(FullLibrary)),
           PriceTable({"Corn silage", "Legume silage, mid maturity"})}
    /\ crop_min_max_table \in
          {MinMaxTable(SeqToSet(FullLibrary)),
           MinMaxTable({"Corn silage", "Legume silage, mid maturity"})}
    /\ methane_weight = One
    /\ np_empty_percentile \in {"nan", "IndexError"}
    /\ gurobi_nl \in BOOLEAN
    /\ var_X = TypicalSolution
    /\ InitState

\* Grouping: every small herd, every valid group count and criterion
InitPartition ==
    /\ prog \in Progs
    /\ group_num \in {1, 2, 3}
    /\ criteria \in {"dim", "nel", "milk"}
    /\ cow_df \in PartitionHerds
    /\ DM_vary = 1
    /\ NEL_vary = 1
    /\ methane_eqn = "Ellis"
    /\ obj = "cost"
    /\ crop_nutrient_table = CropTable(FullLibrary)
    /\ feed_price_table = PriceTable(SeqToSet(FullLibrary))
    /\ crop_min_max_table = MinMaxTable(SeqToSet(FullLibrary))
    /\ methane_weight = One
    /\ np_empty_percentile = "nan"
    /\ gurobi_nl = TRUE
    /\ var_X = TypicalSolution
    /\ InitState

\* Requirement construction: valid and invalid baselines and tolerances
InitReq ==
    /\ prog \in Progs
    /\ group_num = 1
    /\ criteria = "milk"
    /\ cow_df \in ReqHerds
    /\ DM_vary \in VaryValues
    /\ NEL_vary \in VaryValues
    /\ methane_eqn = "Ellis"
    /\ obj = "cost"
    /\ crop_nutrient_table = CropTable(FullLibrary)
    /\ feed_price_table = PriceTable(SeqToSet(FullLibrary))
    /\ crop_min_max_table = MinMaxTable(SeqToSet(FullLibrary))
    /\ methane_weight = One
    /\ np_empty_percentile = "nan"
    /\ gurobi_nl = TRUE
    /\ var_X = TypicalSolution
    /\ InitState

\* The feasible set: one herd of each size, every tolerance
InitFeasible ==
    /\ prog \in Progs
    /\ group_num = 1
    /\ criteria = "milk"
    /\ cow_df \in {RunHerd(n) : n \in 1..MaxAnimalCount}
    /\ DM_vary \in VaryValues
    /\ NEL_vary \in VaryValues
    /\ methane_eqn = "Ellis"
    /\ obj = "cost"
    /\ crop_nutrient_table = CropTable(FullLibrary)
    /\ feed_price_table = PriceTable(SeqToSet(FullLibrary))
    /\ crop_min_max_table = MinMaxTable(SeqToSet(FullLibrary))
    /\ methane_weight = One
    /\ np_empty_percentile = "nan"
    /\ gurobi_nl = TRUE
    /\ var_X = TypicalSolution
    /\ InitState

\* Configuration: every spelling of the methane equation and the objective,
\* and crop libraries that lack one column
InitConfig ==
    /\ prog \in Progs
    /\ group_num = 1
    /\ criteria = "milk"
    /\ cow_df \in {RunHerd(n) : n \in 1..MaxCowsRun}
    /\ DM_vary = 1
    /\ NEL_vary = 1
    /\ methane_eqn \in {"NASEM", " NASEM", "Ellis", "ELLIS", "ellis", "IPCC"}
    /\ obj \in {"cost", " Cost ", "methane", "both", "profit"}
    /\ crop_nutrient_table \in
          {[index |-> FullLibrary, columns |-> AllColumns \ missing] :
              missing \in {{}} \cup {{c} : c \in AllColumns}}
    /\ feed_price_table = PriceTable(SeqToSet(FullLibrary))
    /\ crop_min_max_table = MinMaxTable(SeqToSet(FullLibrary))
    /\ methane_weight \in {One, R(3, 1)}
    /\ np_empty_percentile = "nan"
    /\ gurobi_nl \in BOOLEAN
    /\ var_X = TypicalSolution
    /\ InitState

\* optimize_diet / optimize, called for the whole herd as one cohort, has
\* added its constraints and is about to set the objective
AtObjective ==
    /\ pc = "objective"
    /\ out_dir_exists = (prog = "run_diet_opt")
    /\ groups = <<cow_df>>
    /\ i = 1
    /\ DM_baseline = mean(cow_df, "DMI")
    /\ NEL_baseline = RMul(percentile(cow_df, "NEL", NEL_req_percentile),
                           NEL_unit)
    /\ nutrient_req_table =
          construct_nutritional_req_table(
              mean(cow_df, "DMI"),
              RMul(percentile(cow_df, "NEL", NEL_req_percentile), NEL_unit),
              vary_float(DM_vary), vary_float(NEL_vary))
    /\ animal_count = Len(cow_df)
    /\ objective = NoObjective
    /\ status = "LOADED"
    /\ SolCount = 0
    /\ results_df = NoResults
    /\ feed_df = NoResults
    /\ returned = {}
    /\ files = {}
    /\ err = NoErr
    /\ req_built = {1}
    /\ built = {}
    /\ solver_calls = {}

\* The objective: every objective and weight, for a model whose constraints
\* were accepted (optimize_diet has checked the configuration by then,
\* optimize has not)
InitObjective ==
    /\ prog \in Progs
    /\ group_num = 1
    /\ criteria = "milk"
    /\ cow_df \in {RunHerd(n) : n \in 1..MaxAnimalCount}
    /\ DM_vary = 1
    /\ NEL_vary = 1
    /\ methane_eqn \in {"NASEM", "Ellis", "ELLIS", "IPCC"}
    /\ obj \in {"cost", " Cost ", "methane", "both", "profit"}
    /\ crop_nutrient_table = CropTable(FullLibrary)
    /\ feed_price_table = PriceTable(SeqToSet(FullLibrary))
    /\ crop_min_max_table = MinMaxTable(SeqToSet(FullLibrary))
    /\ methane_weight \in WeightValues
    /\ np_empty_percentile = "nan"
    /\ gurobi_nl \in BOOLEAN
    /\ var_X = TypicalSolution
    /\ prog = "run_diet_opt" =>
          optimize_diet_build(Len(cow_df), methane_eqn, obj,
                              crop_nutrient_table, feed_price_table,
                              crop_min_max_table, gurobi_nl) = NoErr
    /\ AtObjective

\* Solving and extraction: every answer of the solver, for cohorts of every
\* size
InitSolve ==
    /\ prog \in Progs
    /\ group_num = 1
    /\ criteria = "milk"
    /\ cow_df \in {RunHerd(n) : n \in 1..MaxAnimalCount}
    /\ DM_vary = 1
    /\ NEL_vary = 1
    /\ methane_eqn = "Ellis"
    /\ obj \in {"cost", "methane"}
    /\ crop_nutrient_table = CropTable(FullLibrary)
    /\ feed_price_table = PriceTable(SeqToSet(FullLibrary))
    /\ crop_min_max_table = MinMaxTable(SeqToSet(FullLibrary))
    /\ methane_weight = One
    /\ np_empty_percentile = "nan"
    /\ gurobi_nl = TRUE
    /\ var_X \in SolvedAssignments
    /\ AtObjective

-----------------------------------------------------------------------------
(* Steps of group_and_optimize (run_diet_opt.py) and group_and_opt (main.py) *)

Fail(e) == /\ pc' = "failed" /\ err' = e

\* Validation and grouping.  run_diet_opt creates out_dir first; main writes
\* into the working directory.  The grouping utilities sort a copy of the herd.
Group ==
    /\ pc = "start"
    /\ out_dir_exists' = (prog = "run_diet_opt")
    /\ \E r \in (IF prog = "run_diet_opt"
                 THEN group_and_optimize_grouping(group_num, criteria, cow_df)
                 ELSE group_and_opt_grouping(group_num, criteria, cow_df)) :
          /\ groups' = r.groups
          /\ err' = r.err
          /\ pc' = IF r.err = NoErr THEN "req" ELSE "failed"
          /\ cow_df' = IF r.err = NoErr /\ group_num \in {2, 3}
                       THEN sort_values_caller_frame(
                                cow_df, criteria_col(strip_lower(criteria)))
                       ELSE cow_df
    /\ i' = 1
    /\ UNCHANGED <<config, tables, DM_baseline, NEL_baseline,
                   nutrient_req_table, animal_count, objective, status,
                   SolCount, results_df, feed_df, returned, files, req_built,
                   built, solver_calls>>

\* The statistics of cohort i and its requirement table.  np.percentile of
\* an empty column raises or yields NaN, depending on the numpy installed
\* (get_descriptive_stats, printed first, makes the same call).
Requirements ==
    /\ pc = "req"
    /\ LET gdf == groups[i]
       IN  IF Len(gdf) = 0 /\ np_empty_percentile = "IndexError"
           THEN /\ Fail(Raise("IndexError", "percentile"))
                /\ UNCHANGED <<DM_baseline, NEL_baseline, nutrient_req_table,
                               req_built>>
           ELSE LET D == mean(gdf, "DMI")
                    N == IF Len(gdf) = 0 THEN NaN
                         ELSE RMul(percentile(gdf, "NEL", NEL_req_percentile),
                                   NEL_unit)
                IN  /\ DM_baseline' = D
                    /\ NEL_baseline' = N
                    /\ nutrient_req_table' =
                          construct_nutritional_req_table(
                              D, N, vary_float(DM_vary), vary_float(NEL_vary))
                    /\ req_built' = req_built \cup {i}
                    /\ pc' = "build"
                    /\ UNCHANGED err
    /\ UNCHANGED <<inputs, out_dir_exists, groups, i, animal_count, objective,
                   status, SolCount, results_df, feed_df, returned, files,
                   built, solver_calls>>

\* optimize_diet / optimize is entered with len(gdf) and adds the constraints
Build ==
    /\ pc = "build"
    /\ animal_count' = Len(groups[i])
    /\ LET e == IF prog = "run_diet_opt"
                THEN optimize_diet_build(Len(groups[i]), methane_eqn, obj,
                                         crop_nutrient_table, feed_price_table,
                                         crop_min_max_table, gurobi_nl)
                ELSE optimize_build(Len(groups[i]), crop_nutrient_table,
                                    crop_min_max_table)
       IN  IF e = NoErr
           THEN /\ pc' = "objective"
                /\ UNCHANGED err
           ELSE Fail(e)
    /\ UNCHANGED <<inputs, out_dir_exists, groups, i, DM_baseline, NEL_baseline,
                   nutrient_req_table, objective, status, SolCount, results_df,
                   feed_df, returned, files, req_built, built, solver_calls>>

\* m.setObjective (in main.py preceded by the methane constraint): the model
\* is complete
SetObjective ==
    /\ pc = "objective"
    /\ LET r == IF prog = "run_diet_opt"
                THEN optimize_diet_objective(obj, methane_weight)
                ELSE optimize_objective(methane_eqn, obj, gurobi_nl)
       IN  /\ objective' = r.objective
           /\ IF r.err = NoErr
              THEN /\ pc' = "solve"
                   /\ built' = built \cup {i}
                   /\ UNCHANGED err
              ELSE /\ Fail(r.err)
                   /\ UNCHANGED built
    /\ UNCHANGED <<inputs, out_dir_exists, groups, i, DM_baseline, NEL_baseline,
                   nutrient_req_table, animal_count, status, SolCount,
                   results_df, feed_df, returned, files, req_built,
                   solver_calls>>

\* m.optimize(): the solver answers with some status.  optimize_diet raises
\* unless it is OPTIMAL or SUBOPTIMAL; optimize goes on unchecked.
Solve ==
    /\ pc = "solve"
    /\ solver_calls' = solver_calls \cup {i}
    /\ \E o \in SolverOutcomes :
          /\ status' = o.status
          /\ SolCount' = o.SolCount
          /\ IF prog = "run_diet_opt"
                /\ o.status \notin {"OPTIMAL", "SUBOPTIMAL"}
             THEN Fail(Raise("RuntimeError", "status"))
             ELSE /\ pc' = "extract"
                  /\ UNCHANGED err
    /\ UNCHANGED <<inputs, out_dir_exists, groups, i, DM_baseline, NEL_baseline,
                   nutrient_req_table, animal_count, objective, results_df,
                   feed_df, returned, files, req_built, built>>

\* The output tables are built from the solution and returned.  Reading
\* Var.X when the solver holds no solution raises AttributeError.
Extract ==
    /\ pc = "extract"
    /\ \E r \in (IF SolCount = 0
                 THEN {ExtractFailed(Raise("AttributeError", "X"))}
                 ELSE IF prog = "run_diet_opt"
                 THEN optimize_diet_extract(var_X, crop_nutrient_table.index,
                                            animal_count)
                 ELSE optimize_extract(var_X, crop_nutrient_table.index,
                                       animal_count)) :
          /\ results_df' = r.results_df
          /\ feed_df' = r.feed_df
          /\ IF r.err = NoErr
             THEN /\ returned' = returned \cup {i}
                  /\ pc' = "write"
                  /\ UNCHANGED err
             ELSE /\ Fail(r.err)
                  /\ UNCHANGED returned
    /\ UNCHANGED <<inputs, out_dir_exists, groups, i, DM_baseline, NEL_baseline,
                   nutrient_req_table, animal_count, objective, status,
                   SolCount, files, req_built, built, solver_calls>>

\* A step that writes results_group<i>.csv only before the next cohort
Write_results_only ==
    /\ pc = "write"
    /\ files' = files \cup {<<"results_group", i>>}
    /\ IF i < Len(groups)
       THEN /\ i' = i + 1
            /\ pc' = "req"
       ELSE /\ pc' = "done"
            /\ UNCHANGED i
    /\ UNCHANGED <<inputs, out_dir_exists, groups, DM_baseline, NEL_baseline,
                   nutrient_req_table, animal_count, objective, status,
                   SolCount, results_df, feed_df, returned, err, req_built,
                   built, solver_calls>>

\* results_group<i>.csv and feed_group<i>.csv are written; then the next cohort
Write ==
    /\ pc = "write"
    /\ files' = files \cup {<<"results_group", i>>, <<"feed_group", i>>}
    /\ IF i < Len(groups)
       THEN /\ i' = i + 1
            /\ pc' = "req"
       ELSE /\ pc' = "done"
            /\ UNCHANGED i
    /\ UNCHANGED <<inputs, out_dir_exists, groups, DM_baseline, NEL_baseline,
                   nutrient_req_table, animal_count, objective, status,
                   SolCount, results_df, feed_df, returned, err, req_built,
                   built, solver_calls>>

Next == Group \/ Requirements \/ Build \/ SetObjective \/ Solve \/ Extract \/ Write

\* Validation and grouping alone
NextPartition == Group

\* optimize_diet / optimize from the objective on
NextSolve == SetObjective \/ Solve \/ Extract \/ Write

Spec == Init /\ [][Next]_vars

SpecPartition == InitPartition /\ [][NextPartition]_vars

SpecReq == InitReq /\ [][Next]_vars

SpecFeasible == InitFeasible /\ [][Next]_vars

\* Both scripts from the start, and from the objective on
SpecConfig == (InitConfig \/ InitObjective) /\ [][Next]_vars

SpecObjective == InitObjective /\ [][NextSolve]_vars

SpecSolve == InitSolve /\ [][NextSolve]_vars

-----------------------------------------------------------------------------
(* Vocabulary of the properties                                             *)

\* The grouping step has returned its cohorts (it did not raise)
GroupingReturned ==
    /\ pc # "start"
    /\ ~(pc = "failed" /\ err.site \in {"group_num", "criteria"})

IDs(df) == {df[k].ID : k \in DOMAIN df}

RECURSIVE Flatten(_)
Flatten(gs) == IF Len(gs) = 0 THEN <<>> ELSE gs[1] \o Flatten(Tail(gs))

\* The column the run groups by
GroupCol == criteria_col(strip_lower(criteria))

-----------------------------------------------------------------------------
(* C1: for every herd and every group count in {1,2,3}, the cohorts the     *)
(* partitioner returns are pairwise disjoint, their sizes sum to the herd    *)
(* size, and the union of their identifiers is the herd's identifier set.    *)

C1_PartitionRoundTrip ==
    GroupingReturned =>
        /\ Len(groups) = group_num
        /\ Len(Flatten(groups)) = Len(cow_df)
        /\ \A a, b \in DOMAIN groups :
              a # b => IDs(groups[a]) \cap IDs(groups[b]) = {}
        /\ \A a \in DOMAIN groups : Cardinality(IDs(groups[a])) = Len(groups[a])
        /\ UNION {IDs(groups[a]) : a \in DOMAIN groups} = IDs(cow_df)

C1_Witness ==
    /\ GroupingReturned
    /\ group_num = 2
    /\ Len(cow_df) = 3
    /\ Len(groups[1]) = 1
    /\ Len(groups[2]) = 2

-----------------------------------------------------------------------------
(* C2 as stated: for 2 or 3 groups the concatenation of the cohorts is the   *)
(* herd sorted ascending by the criterion column, and the sort is stable:    *)
(* cows with equal criterion value keep their input order.                   *)

Ascending(df, col) ==
    \A k \in 1..(Len(df) - 1) : df[k][col] <= df[k + 1][col]

TiesKeepInputOrder(df, col) ==
    \A a, b \in DOMAIN df :
        (a < b /\ df[a][col] = df[b][col]) => df[a].ID < df[b].ID

\* C2 as stated: ascending and stable
C2_StableSort ==
    (GroupingReturned /\ group_num \in {2, 3}) =>
        /\ Ascending(Flatten(groups), GroupCol)
        /\ TiesKeepInputOrder(Flatten(groups), GroupCol)

(* C2 as amended: for 2 or 3 groups the concatenation of the cohorts is a    *)
(* rearrangement of the herd's rows in ascending order of the criterion      *)
(* column; the order among cows with equal criterion value is not fixed.     *)

C2_SortedRearrangement ==
    (GroupingReturned /\ group_num \in {2, 3}) =>
        /\ Ascending(Flatten(groups), GroupCol)
        /\ Len(Flatten(groups)) = Len(cow_df)
        /\ \A k \in DOMAIN cow_df :
              \E j \in DOMAIN Flatten(groups) : Flatten(groups)[j] = cow_df[k]

\* A herd given out of order is returned in order
C2_Witness ==
    /\ GroupingReturned
    /\ group_num = 3
    /\ criteria = "dim"
    /\ Len(cow_df) = 3
    /\ cow_df[1].DIM > cow_df[2].DIM
    /\ cow_df[2].DIM = cow_df[3].DIM
    /\ groups[1][1].ID # 1

-----------------------------------------------------------------------------
(* C3: for a non-empty herd and a group count in {1,2,3}, every cohort that  *)
(* is returned by the partitioner and handed to the requirement calculator   *)
(* and the model builder has at least one cow, also when the herd is         *)
(* smaller than the group count.                                             *)

C3_HandedCohortsNonEmpty ==
    (Len(cow_df) >= 1 /\ GroupingReturned) =>
        /\ \A a \in req_built : Len(groups[a]) >= 1
        /\ pc \in {"objective", "solve", "extract", "write"}
              => animal_count >= 1

-----------------------------------------------------------------------------
(* C4 as stated: a group count outside {1,2,3}, or an unrecognized          *)
(* criterion with any group count, ends the run with a ValueError before     *)
(* any requirement table is computed, any model solved, any output written.  *)

Unrecognized(crit) == strip_lower(crit) \notin {"dim", "nel", "milk"}

NothingDone ==
    /\ req_built = {}
    /\ built = {}
    /\ solver_calls = {}
    /\ returned = {}
    /\ files = {}

RejectedAtGrouping ==
    /\ pc = "failed"
    /\ err.type = "ValueError"
    /\ err.site \in {"group_num", "criteria"}
    /\ NothingDone

\* C4 as stated: an invalid group count or criterion is rejected at once
C4_InvalidGroupingRejected ==
    (pc # "start" /\ (group_num \notin {1, 2, 3} \/ Unrecognized(criteria)))
        => RejectedAtGrouping

(* C4 as amended: a group count outside {1,2,3}, or an unrecognized         *)
(* criterion together with a group count of 2 or 3, ends the run with a      *)
(* ValueError before any requirement table is computed, any model solved or  *)
(* any output written; with one group the criterion is not examined.         *)

C4_InvalidGroupingRejectedForSplit ==
    (pc # "start"
       /\ (group_num \notin {1, 2, 3}
             \/ (group_num \in {2, 3} /\ Unrecognized(criteria))))
        => RejectedAtGrouping

C4_Witness ==
    /\ RejectedAtGrouping
    /\ group_num = 2
    /\ criteria = "weight"
    /\ Len(cow_df) = 2

-----------------------------------------------------------------------------
(* C5: partitioning an empty herd ends the run with a ValueError for every   *)
(* group count in {1,2,3}; no cohort is returned and no requirement table    *)
(* or model is built from it.                                                *)

C5_EmptyHerdRejected ==
    (Len(cow_df) = 0 /\ group_num \in {1, 2, 3} /\ pc # "start") =>
        /\ pc = "failed"
        /\ err.type = "ValueError"
        /\ groups = <<>>
        /\ req_built = {}
        /\ built = {}

-----------------------------------------------------------------------------
(* C6: for valid inputs the requirement table is                             *)
(*   DM  = DM_baseline * [1 - DM_vary, 1 + DM_vary],                         *)
(*   NEL = DM_baseline * NEL_baseline * [1 - NEL_vary, 1 + NEL_vary],        *)
(*   CP, NDF, STARCH, FAT = DM_baseline * [0.15, 0.20], [0.25, 0.33],        *)
(*   [0.22, 0.30], [0.00, 0.07], the last four whatever the tolerances;      *)
(* 25, 1.7, 0.02, 0.02 give DM [24.5, 25.5] and NEL [41.65, 43.35].          *)

\* The rational t is num / den (den > 0), both in lowest terms
Is(t, num, den) == /\ t.d > 0 /\ t = R(num, den)

ValidReqInput ==
    /\ DM_baseline.d > 0 /\ DM_baseline.n > 0
    /\ NEL_baseline.d > 0 /\ NEL_baseline.n > 0
    /\ DM_vary \in 0..99
    /\ NEL_vary \in 0..99

\* C6: the table holds exactly the stated bounds
C6_RequirementTable ==
    (pc = "build" /\ ValidReqInput) =>
        LET t  == nutrient_req_table
            Dn == DM_baseline.n
            Dd == DM_baseline.d
            Nn == NEL_baseline.n
            Nd == NEL_baseline.d
        IN  /\ Is(t.DM.min,  Dn * (100 - DM_vary), Dd * 100)
            /\ Is(t.DM.max,  Dn * (100 + DM_vary), Dd * 100)
            /\ Is(t.NEL.min, Dn * Nn * (100 - NEL_vary), Dd * Nd * 100)
            /\ Is(t.NEL.max, Dn * Nn * (100 + NEL_vary), Dd * Nd * 100)
            /\ Is(t.CP.min,     Dn * 15, Dd * 100)
            /\ Is(t.CP.max,     Dn * 20, Dd * 100)
            /\ Is(t.NDF.min,    Dn * 25, Dd * 100)
            /\ Is(t.NDF.max,    Dn * 33, Dd * 100)
            /\ Is(t.STARCH.min, Dn * 22, Dd * 100)
            /\ Is(t.STARCH.max, Dn * 30, Dd * 100)
            /\ Is(t.FAT.min,    0, 1)
            /\ Is(t.FAT.max,    Dn * 7, Dd * 100)
            /\ (Is(DM_baseline, 25, 1) /\ Is(NEL_baseline, 17, 10)
                  /\ DM_vary = 2 /\ NEL_vary = 2) =>
                    /\ Is(t.DM.min, 245, 10)   /\ Is(t.DM.max, 255, 10)
                    /\ Is(t.NEL.min, 4165, 100) /\ Is(t.NEL.max, 4335, 100)

C6_Witness ==
    /\ pc = "build"
    /\ Is(DM_baseline, 25, 1)
    /\ Is(NEL_baseline, 17, 10)
    /\ DM_vary = 2
    /\ NEL_vary = 2
    /\ Is(nutrient_req_table.NEL.min, 4165, 100)

-----------------------------------------------------------------------------
(* C7: the requirement calculation fails, returning no table, whenever a     *)
(* baseline is not positive or a tolerance lies outside [0, 1).              *)

C7_InvalidInputRejected ==
    pc = "build" => ValidReqInput

-----------------------------------------------------------------------------
(* C8: every requirement table that reaches the model builder has            *)
(* min <= max for DM, NEL, CP, NDF, STARCH and FAT, and strictly positive    *)
(* DM bounds.                                                                *)

Nutrients == {"DM", "NEL", "CP", "NDF", "STARCH", "FAT"}

\* C8: a table the model was built from is well formed
C8_TableWellFormed ==
    pc \in {"objective", "solve", "extract", "write"} =>
        /\ \A n \in Nutrients :
              RLe(nutrient_req_table[n].min, nutrient_req_table[n].max)
        /\ RLt(Zero, nutrient_req_table.DM.min)
        /\ RLt(Zero, nutrient_req_table.DM.max)

-----------------------------------------------------------------------------
(* C9: if a forage ingredient ("Corn silage" or "Legume silage, mid          *)
(* maturity") is absent from the crop library, model building ends with the  *)
(* missing-ingredient error (the ValueError of optimize_diet's forage check, *)
(* the KeyError of optimize's lookup) and the solver is never invoked: no    *)
(* model is solved and no output is written.                                 *)

ForageMissing ==
    \E k \in DOMAIN forage_ingredients :
        forage_ingredients[k] \notin SeqToSet(crop_nutrient_table.index)

\* The run ended inside optimize_diet / optimize, before m.optimize()
FailedInBuild ==
    /\ pc = "failed"
    /\ err.site \notin {"group_num", "criteria", "percentile", "status", "X",
                        "sort_values", "results_data"}

\* The crop library has every column the model reads
ColumnsPresent ==
    required_crop_cols \cup SeqToSet(OTHER_NUTRIENTS)
        \subseteq crop_nutrient_table.columns

\* Nothing optimize_diet checks before its ingredient lookups is wrong
ConfigValid ==
    /\ animal_count > 0
    /\ strip_upper(methane_eqn) \in {"ELLIS", "NASEM"}
    /\ strip_lower(obj) \in {"methane", "cost", "both"}
    /\ ColumnsPresent

\* C9: a missing forage ingredient ends model building before the solver
C9_MissingForageStopsBuild ==
    ForageMissing =>
        /\ pc \in {"start", "req", "build", "failed"}
        /\ built = {}
        /\ solver_calls = {}
        /\ returned = {}
        /\ files = {}
        /\ (FailedInBuild /\ ConfigValid /\ prog = "run_diet_opt")
              => err = Raise("ValueError", "forage")
        /\ (FailedInBuild /\ animal_count > 0 /\ ColumnsPresent
               /\ prog = "main")
              => err = Raise("KeyError", "forage")

C9_Witness ==
    /\ ForageMissing
    /\ "Corn silage" \notin SeqToSet(crop_nutrient_table.index)
    /\ prog = "run_diet_opt"
    /\ pc = "failed"
    /\ err = Raise("ValueError", "forage")
    /\ req_built = {1}

-----------------------------------------------------------------------------
(* C10: if an ingredient of the crop library has no row in the inclusion-    *)
(* limits table or in the price table, model building ends with the          *)
(* missing-ingredient ValueError instead of assuming a bound or a price,     *)
(* and the solver is not invoked.                                            *)

MinMaxRowMissing ==
    \E k \in DOMAIN crop_nutrient_table.index :
        crop_nutrient_table.index[k] \notin crop_min_max_table.index

PriceRowMissing ==
    \E k \in DOMAIN crop_nutrient_table.index :
        crop_nutrient_table.index[k] \notin feed_price_table.index

\* C10: a missing limits or price row ends model building before the solver
C10_MissingRowStopsBuild ==
    (MinMaxRowMissing \/ PriceRowMissing) =>
        /\ pc \in {"start", "req", "build", "failed"}
        /\ built = {}
        /\ solver_calls = {}
        /\ returned = {}
        /\ files = {}
        /\ (FailedInBuild /\ ConfigValid /\ ~ForageMissing
               /\ prog = "run_diet_opt")
              => err = IF MinMaxRowMissing
                       THEN Raise("ValueError", "min_max")
                       ELSE Raise("ValueError", "price")

C10_Witness ==
    /\ MinMaxRowMissing
    /\ ~PriceRowMissing
    /\ prog = "run_diet_opt"
    /\ pc = "failed"
    /\ err = Raise("ValueError", "min_max")
    /\ req_built = {1}

-----------------------------------------------------------------------------
(* C11: if the methane equation is not Ellis or NASEM, the objective is not  *)
(* cost, methane or both, or one of the crop library columns DM, NEL, CP,    *)
(* NDF, STARCH, FAT, TFA, DNDF is absent, model building ends with an error  *)
(* (the ValueError of the check that finds it): the solver is never invoked  *)
(* and no result is returned or written.                                     *)

InvalidConfiguration ==
    \/ strip_upper(methane_eqn) \notin {"ELLIS", "NASEM"}
    \/ strip_lower(obj) \notin {"methane", "cost", "both"}
    \/ ~(AllColumns \subseteq crop_nutrient_table.columns)

\* The error optimize_diet raises for the first thing wrong in the
\* configuration
ConfigurationError ==
    IF strip_upper(methane_eqn) \notin {"ELLIS", "NASEM"}
    THEN Raise("ValueError", "methane_eqn")
    ELSE IF strip_lower(obj) \notin {"methane", "cost", "both"}
    THEN Raise("ValueError", "obj")
    ELSE IF ~(required_crop_cols \subseteq crop_nutrient_table.columns)
    THEN Raise("ValueError", "missing_cols")
    ELSE Raise("ValueError", "nutrient_column")

\* The places where optimize (main.py) stops before it compares the methane
\* equation and the objective, or between the two comparisons
MainBuildSites ==
    {"DM", "animal_count", "nutrient_column", "forage", "min_max",
     "get_feed_price_table", "methane_calc"}

\* C11: an invalid configuration ends model building before the solver
C11_InvalidConfigurationStopsBuild ==
    InvalidConfiguration =>
        /\ pc \in {"start", "req", "build", "objective", "failed"}
        /\ built = {}
        /\ solver_calls = {}
        /\ returned = {}
        /\ files = {}
        /\ (pc = "failed" /\ prog = "run_diet_opt") => err = ConfigurationError
        /\ (pc = "failed" /\ prog = "main" /\ err.site \notin MainBuildSites)
              => err.type = "ValueError" /\ err.site \in {"methane_eqn", "obj"}

C11_Witness ==
    /\ prog = "run_diet_opt"
    /\ strip_upper(methane_eqn) = "NASEM"
    /\ obj = "profit"
    /\ AllColumns \subseteq crop_nutrient_table.columns
    /\ pc = "failed"
    /\ err = Raise("ValueError", "obj")
    /\ req_built = {1}

-----------------------------------------------------------------------------
(* C12: when the solver ends with a status other than OPTIMAL or SUBOPTIMAL  *)
(* the cohort's solve is a failure: no summary table and no ingredient       *)
(* table is extracted, returned or written, in optimize_diet and in          *)
(* optimize.                                                                 *)

SolverFailed == status \notin {"LOADED", "OPTIMAL", "SUBOPTIMAL"}

-----------------------------------------------------------------------------
(* C13: in a run with 2 or 3 cohorts, when the solve of one cohort fails,    *)
(* every other cohort, the later ones included, is still built and solved    *)
(* and has its two output files written.                                     *)

SolveFailedAt(k) ==
    /\ pc = "failed"
    /\ err = Raise("RuntimeError", "status")
    /\ i = k

C13_FailedCohortDoesNotBlockOthers ==
    \A k \in DOMAIN groups :
        (group_num \in {2, 3} /\ SolveFailedAt(k)) =>
            \A j \in DOMAIN groups \ {k} :
                /\ j \in built
                /\ j \in solver_calls
                /\ {<<"results_group", j>>, <<"feed_group", j>>} \subseteq files

-----------------------------------------------------------------------------
(* C14: the ingredient table has a row for ingredient c exactly when c's     *)
(* herd total divided by the cohort size is strictly greater than 0.01, and  *)
(* the value of that row is the herd total divided by the cohort size.       *)

\* The two tables of the current cohort have been built and returned
TablesReturned == pc \in {"write", "done"} /\ i \in returned

PerCow(c) == RDiv(var_X.feed_on_farm[c], R(animal_count, 1))

Listed(c) == \E k \in DOMAIN feed_df : feed_df[k].Ingredient = c

-----------------------------------------------------------------------------
(* C15: when the solved dmi is 0, building the tables does not raise, and    *)
(* the rows that are ratios over dmi (NEL, CP, NDF, STARCH, FAT, TFA, DNDF)  *)
(* are NaN; dm% is NaN when the total as-fed amount is 0.                    *)

\* The solver answered with a solution and the tables were asked for
ExtractionRan ==
    /\ status \in {"OPTIMAL", "SUBOPTIMAL"}
    /\ SolCount = 1
    /\ pc \in {"write", "done", "failed"}

RatioRows == 5..11

-----------------------------------------------------------------------------
(* C16: the rows of the summary table when the solved dmi is positive        *)

\* The quantity each row of the summary stands for (rows 3 and 4, intake and
\* dm%, are not spoken of)
Stated(k) ==
    CASE k = 1  -> var_X.cost
      [] k = 2  -> RMul(var_X.methane, R(1000, 1))
      [] k = 5  -> RDiv(var_X.nel, var_X.dmi)
      [] k = 6  -> RMul(RDiv(var_X.nutrient_vars.CP, var_X.dmi), R(100, 1))
      [] k = 7  -> RMul(RDiv(var_X.nutrient_vars.NDF, var_X.dmi), R(100, 1))
      [] k = 8  -> RMul(RDiv(var_X.nutrient_vars.STARCH, var_X.dmi), R(100, 1))
      [] k = 9  -> RMul(RDiv(var_X.nutrient_vars.FAT, var_X.dmi), R(100, 1))
      [] k = 10 -> RMul(RDiv(var_X.tfa, var_X.dmi), R(100, 1))
      [] k = 11 -> RMul(RDiv(var_X.dndf, var_X.dmi), R(100, 1))

StatedRows == {1, 2} \cup 5..11

\* The number of decimals each script keeps
Decimals == IF prog = "run_diet_opt" THEN 4 ELSE 2

\* v is a whole number of units of 10^-k, and no such number is nearer to x
Rounded(v, x, k) ==
    /\ v.d > 0
    /\ Pow10(k) % v.d = 0
    /\ LET m    == v.n * (Pow10(k) \div v.d)
           diff == x.n * Pow10(k) - m * x.d
       IN  2 * (IF diff < 0 THEN 0 - diff ELSE diff) <= x.d

\* C16 as stated: with dmi > 0, the methane row is methane x 1000, the cost
\* row is cost, the NEL row is nel / dmi, and the CP, NDF, STARCH, FAT, TFA
\* and DNDF rows are value / dmi x 100.
C16_SummaryRowsExact ==
    (TablesReturned /\ RLt(Zero, var_X.dmi)) =>
        /\ Len(results_df) = 11
        /\ \A k \in StatedRows : results_df[k].Value = Stated(k)

\* C16, amended: with dmi > 0 and either objective, each of those rows is
\* the stated quantity rounded to 4 decimals (2 decimals in main.py).
C16_SummaryRowsRounded ==
    (TablesReturned /\ RLt(Zero, var_X.dmi)) =>
        /\ Len(results_df) = 11
        /\ \A k \in StatedRows :
              Rounded(results_df[k].Value, Stated(k), Decimals)

\* Methane is minimised, 1/3 kg of it is emitted, and the summary of
\* run_diet_opt.py shows 333.3333 g
C16_Witness ==
    /\ TablesReturned
    /\ prog = "run_diet_opt"
    /\ obj = "methane"
    /\ RLt(Zero, var_X.dmi)
    /\ var_X.methane = R(1, 3)
    /\ results_df[2].Value = R(3333333, 10000)

-----------------------------------------------------------------------------
(* C17: the objective handed to the solver                                   *)

\* The objective asked for, as each script reads it
Requested == IF prog = "run_diet_opt" THEN strip_lower(obj) ELSE obj

\* The weight of methane: optimize_diet's methane_weight argument; in main.py
\* the module's w, the only weight its caller can set
MethaneWeight == IF prog = "run_diet_opt" THEN methane_weight ELSE R(w, 1)

Minimize(c, m) == [cost |-> c, methane |-> m]

\* C17: once the objective is set it is methane alone for "methane", cost
\* alone for "cost", and cost + weight x methane for "both", with the weight
\* the caller gave; for "cost" and "methane" the weight appears nowhere.
C17_ObjectiveAsRequested ==
    i \in built =>
        /\ Requested \in {"methane", "cost", "both"}
        /\ Requested = "methane" => objective = Minimize(Zero, One)
        /\ Requested = "cost" => objective = Minimize(One, Zero)
        /\ Requested = "both" => objective = Minimize(One, MethaneWeight)

\* optimize_diet is asked for both with weight 3 and minimises
\* cost + 3 x methane
C17_Witness ==
    /\ i \in built
    /\ prog = "run_diet_opt"
    /\ Requested = "both"
    /\ methane_weight = R(3, 1)
    /\ objective = Minimize(One, R(3, 1))

-----------------------------------------------------------------------------
(* C19: the returned ingredient table lists its rows in non-increasing       *)
(* order of as-fed kg/cow/day.                                               *)

-----------------------------------------------------------------------------
(* C20: no step of the run, successful or failing, changes the caller's cow  *)
(* population (its rows and their order), the crop library, the price table  *)
(* or the inclusion-limits table.                                            *)

C20_InputsUnchanged ==
    [][/\ cow_df' = cow_df
       /\ crop_nutrient_table' = crop_nutrient_table
       /\ feed_price_table' = feed_price_table
       /\ crop_min_max_table' = crop_min_max_table]_vars

\* A run with 2 or 3 cohorts has ended, and the cohorts taken together are
\* ordered differently from the caller's herd
C20_Witness ==
    /\ pc = "done"
    /\ group_num \in {2, 3}
    /\ Len(cow_df) >= 2
    /\ Flatten(groups) # cow_df
    /\ IDs(Flatten(groups)) = IDs(cow_df)

-----------------------------------------------------------------------------
(* C18: for positive baselines and tolerances v1 <= v2 in [0, 1), the DM     *)
(* interval of the table built with DM_vary = v1 lies within the one built   *)
(* with v2, likewise the NEL interval for NEL_vary, and every assignment     *)
(* feasible for the model built from the narrower table is feasible for the  *)
(* model built from the wider one.                                           *)

\* The table for the same baselines and the tolerances v1, w1 (hundredths)
NarrowerTable(v1, w1) ==
    construct_nutritional_req_table(DM_baseline, NEL_baseline,
                                    vary_float(v1), vary_float(w1))

Within(a, b) == RLe(b.min, a.min) /\ RLe(a.max, b.max)

CohortSize == Len(groups[i])

C18_WiderToleranceKeepsFeasible ==
    (pc = "build" /\ ValidReqInput) =>
        \A v1 \in 0..DM_vary, w1 \in 0..NEL_vary :
            LET s == NarrowerTable(v1, w1)
                t == nutrient_req_table
            IN  /\ Within(s.DM, t.DM)
                /\ Within(s.NEL, t.NEL)
                /\ \A X \in Assignments(CohortSize) :
                      Feasible(X, crop_nutrient_table.index, CohortSize, s,
                               crop_min_max_values)
                          => Feasible(X, crop_nutrient_table.index,
                                      CohortSize, t, crop_min_max_values)

\* Tolerances of 2%: some assignment is feasible with no tolerance already,
\* and another one only with the 2%
C18_Witness ==
    /\ pc = "build"
    /\ ValidReqInput
    /\ DM_vary = 2
    /\ NEL_vary = 2
    /\ \E X \in Assignments(CohortSize) :
          Feasible(X, crop_nutrient_table.index, CohortSize,
                   NarrowerTable(0, 0), crop_min_max_values)
    /\ \E X \in Assignments(CohortSize) :
          /\ Feasible(X, crop_nutrient_table.index, CohortSize,
                      nutrient_req_table, crop_min_max_values)
          /\ ~Feasible(X, crop_nutrient_table.index, CohortSize,
                       NarrowerTable(0, 0), crop_min_max_values)

-----------------------------------------------------------------------------
(* C21: for 2 or 3 groups and a herd of N cows, cohort i (0-based) is the    *)
(* positions floor(i*N/g) up to but excluding floor((i+1)*N/g) of the sorted *)
(* herd; the cohort sizes differ by at most one and never decrease from an   *)
(* earlier cohort to a later one.                                            *)

C21_FloorBoundaries ==
    (GroupingReturned /\ group_num \in {2, 3}) =>
        LET N == Len(cow_df)
            g == group_num
            sorted_df == Flatten(groups)
        IN  /\ Len(groups) = g
            /\ Len(sorted_df) = N
            /\ Ascending(sorted_df, GroupCol)
            /\ \A k \in 1..g :
                  /\ Len(groups[k]) = (k * N) \div g - ((k - 1) * N) \div g
                  /\ groups[k] = SubSeq(sorted_df, ((k - 1) * N) \div g + 1,
                                        (k * N) \div g)
            /\ \A k \in 1..(g - 1) : Len(groups[k]) <= Len(groups[k + 1])
            /\ \A a, b \in 1..g : Len(groups[a]) - Len(groups[b]) <= 1

\* Two cows in three cohorts: the first cohort is empty, the others hold one
C21_Witness ==
    /\ GroupingReturned
    /\ group_num = 3
    /\ Len(cow_df) = 2
    /\ Len(groups[1]) = 0
    /\ Len(groups[2]) = 1
    /\ Len(groups[3]) = 1

-----------------------------------------------------------------------------
(* C22: cohorts are processed one after another in cohort order.  For each   *)
(* cohort the requirements are computed, then the model is built, then the   *)
(* solver is invoked, then the results are extracted, then the two output    *)
(* files are written, and the files of cohort j are written before anything  *)
(* is done for cohort j + 1.  A run that succeeds with g cohorts has written *)
(* exactly the g pairs results_group1..g, feed_group1..g; a run that stops   *)
(* with an error at cohort k leaves exactly the pairs of cohorts 1..k-1.     *)

OutputPair(j) == {<<"results_group", j>>, <<"feed_group", j>>}

OutputPairs(k) == UNION {OutputPair(j) : j \in 1..k}

C22_CohortsInOrder ==
    /\ built \subseteq req_built
    /\ solver_calls \subseteq built
    /\ returned \subseteq solver_calls
    /\ \A f \in files : f[2] \in returned
    /\ \A j \in req_built : OutputPairs(j - 1) \subseteq files
    /\ GroupingReturned =>
          /\ req_built \subseteq 1..i
          /\ pc \in {"req", "build", "objective", "solve", "extract",
                      "write", "failed"} => files = OutputPairs(i - 1)
          /\ pc = "done" =>
                /\ Len(groups) = group_num
                /\ files = OutputPairs(group_num)
    /\ ~GroupingReturned => files = {}

\* The first two cohorts are written and the solve of the third fails
C22_Witness ==
    /\ pc = "failed"
    /\ group_num = 3
    /\ i = 3
    /\ err = Raise("RuntimeError", "status")
    /\ solver_calls = {1, 2, 3}
    /\ files = OutputPairs(2)

-----------------------------------------------------------------------------
(* C23: with a strictly positive DM minimum, every assignment that satisfies *)
(* the constraints of the model has dmi > 0 and strictly positive herd       *)
(* totals of both forage ingredients; a model whose inclusion limits cap     *)
(* either forage at 0 has no feasible assignment.                            *)

LimitTables ==
    {crop_min_max_values} \cup {capped(forage_ingredients[k]) : k \in {1, 2}}

C23_FeasibleDietHasBothForages ==
    (pc = "build" /\ RLt(Zero, nutrient_req_table.DM.min)) =>
        LET crops == crop_nutrient_table.index
            t == nutrient_req_table
        IN  \A X \in Assignments(CohortSize), limits \in LimitTables :
                Feasible(X, crops, CohortSize, t, limits) =>
                    /\ RLt(Zero, model_values(X, crops, CohortSize).dmi)
                    /\ \A k \in {1, 2} : RLt(Zero, X[forage_ingredients[k]])
                    /\ \A k \in {1, 2} :
                          limits # capped(forage_ingredients[k])

\* A table with a positive DM minimum for which some assignment is feasible,
\* and an assignment without legume silage that only the land coupling
\* excludes
C23_Witness ==
    /\ pc = "build"
    /\ RLt(Zero, nutrient_req_table.DM.min)
    /\ \E X \in Assignments(CohortSize) :
          Feasible(X, crop_nutrient_table.index, CohortSize,
                   nutrient_req_table, crop_min_max_values)
    /\ \E X \in Assignments(CohortSize) :
          LET v == model_values(X, crop_nutrient_table.index, CohortSize)
          IN  /\ X["Legume silage, mid maturity"] = Zero
              /\ lower_bounds(X, crop_nutrient_table.index, v)
              /\ nutrient_constraints(v, nutrient_req_table)
              /\ forage_constraints(v)
              /\ ~land_constraints(X)

====
